---- MODULE Spec2Model ----
(***************************************************************************)
(* Model of scratch-build-bot.py: the command-line front end that resolves *)
(* one configuration mode, builds a StagingBot handle, runs setup(), one   *)
(* action coroutine, prints its result and runs teardown() in a finally.   *)
(*                                                                         *)
(* The script is sequential: pc is the position in the script.  Every call *)
(* into the StagingBot handle is split into the call (appended to calls,   *)
(* recorded in active) and its conclusion (a return value or an exception, *)
(* chosen nondeterministically: the handle is an opaque collaborator).     *)
(***************************************************************************)
EXTENDS Integers, Sequences, FiniteSets, TLC

\* ---------------------------------------------------------------- bounds
MaxResults == 2      \* packages in a build result set
MaxVerbose == 3      \* number of -v flags
MaxTimeout == 2      \* value of --timeout-sec

\* ------------------------------------------------------- python values
PyNone == [t |-> "None", v |-> ""]
PyStr(s) == [t |-> "str", v |-> s]

\* bool(x) of a value that is None or a str
Truthy(x) == x.t = "str" /\ x.v /= ""

\* variant: the fallback is taken whatever x is
PyOrSecond(x, y) == y

\* x or y
PyOr(x, y) == IF Truthy(x) THEN x ELSE y

NoTimeout == [t |-> "None", n |-> 0]
IntTimeout(k) == [t |-> "int", n |-> k]

\* ------------------------------------------------------- command line
ACTION_T ==
  { "rebuild", "create_project", "query_build_result", "commit_state",
    "scratch_build", "cleanup", "wait", "get_build_quality" }

\* a subcommand word argparse does not know
UnknownCommands == { "deploy" }

OsVersionInputs == { PyNone, PyStr(""), PyStr("Tumbleweed"), PyStr("bogus") }
OscUserInputs == { PyNone, PyStr("bot") }
BranchNameInputs == { PyStr(""), PyStr("staging") }
CommitMessageInputs == { PyStr(""), PyStr("fix") }
TimeoutInputs == { NoTimeout } \cup { IntTimeout(k) : k \in 1..MaxTimeout }
StdinInputs == { "", "@bot stage Tumbleweed" }

\* the attributes of the argparse namespace the script reads; attributes a
\* subcommand does not define keep the value given here and are never read
DefaultArgs ==
  [ os_version |-> PyNone, osc_user |-> PyNone, branch_name |-> PyStr(""),
    load |-> FALSE, from_stdin |-> FALSE, verbose |-> 0, action |-> PyNone,
    commit_message |-> PyStr(""), no_cleanup_branch |-> FALSE,
    no_cleanup_project |-> FALSE, timeout_sec |-> NoTimeout ]

\* the options each subcommand adds to the namespace
SubcommandArgs(cmd) ==
  CASE cmd \in { "commit_state", "scratch_build" } ->
         { [ commit_message |-> m, no_cleanup_branch |-> FALSE,
             no_cleanup_project |-> FALSE, timeout_sec |-> NoTimeout ]
           : m \in CommitMessageInputs }
    [] cmd = "cleanup" ->
         { [ commit_message |-> PyStr(""), no_cleanup_branch |-> b,
             no_cleanup_project |-> p, timeout_sec |-> NoTimeout ]
           : b \in BOOLEAN, p \in BOOLEAN }
    [] cmd = "wait" ->
         { [ commit_message |-> PyStr(""), no_cleanup_branch |-> FALSE,
             no_cleanup_project |-> FALSE, timeout_sec |-> t ]
           : t \in TimeoutInputs }
    [] OTHER ->
         { [ commit_message |-> PyStr(""), no_cleanup_branch |-> FALSE,
             no_cleanup_project |-> FALSE, timeout_sec |-> NoTimeout ] }

\* ------------------------------------------------------- collaborators
PackageStatus == { "succeeded", "failed" }

BuildResultSets ==
  UNION { [1..n -> PackageStatus] : n \in 0..MaxResults }

\* staging.build_result.is_build_failed
is_build_failed(build_res) ==
  \E i \in 1..Len(build_res) : build_res[i] = "failed"

\* staging.build_result.render_as_markdown
RECURSIVE render_as_markdown(_)
render_as_markdown(build_res) ==
  IF build_res = <<>> THEN ""
  ELSE ("- " \o Head(build_res) \o "\n") \o render_as_markdown(Tail(build_res))

\* bci_build.package.OsVersion.parse succeeds on these
ALL_OS_VERSIONS == { "Tumbleweed" }

\* what a handle operation can hand back when it returns normally
HandleReturns(op) ==
  IF op \in { "fetch_build_results", "wait_for_build_to_finish" }
  THEN BuildResultSets
  ELSE { PyNone, PyStr(""), PyStr("abc123") }

\* ---------------------------------------------------------------- state
VARIABLES
  pc,        \* position in the script
  args,      \* the parsed argparse namespace
  bot,       \* how the handle was constructed, "none" before
  calls,     \* every factory and handle invocation, in order
  active,    \* the handle operation currently awaited, "none" otherwise
  coro,      \* the coroutine built by the dispatch chain
  awaited,   \* << r >> once the awaited action operation returned r
  res,       \* the value of loop.run_until_complete(coro)
  stdout,    \* the arguments of the print calls, in order
  stdinRead, \* sys.stdin.read() was called
  logLevel,  \* level of LOGGER
  exc,       \* the exception propagating, "none" otherwise
  context,   \* the exception exc replaced (__context__)
  exitCode   \* process exit status, -1 while running

vars == << pc, args, bot, calls, active, coro, awaited, res, stdout, stdinRead,
           logLevel, exc, context, exitCode >>

NoCoro == [ op |-> "none", args |-> <<>>, wrap |-> "none" ]

\* a call that has begun and not yet concluded
Call(op, a) == [ op |-> op, args |-> a, outcome |-> "pending" ]

\* a call that ran to its conclusion within one step
Concluded(op, a, how) == [ op |-> op, args |-> a, outcome |-> how ]

\* the last call concludes: "returned" or "raised"
Conclude(cs, how) == [ cs EXCEPT ![Len(cs)].outcome = how ]

Init ==
  /\ pc = "parse_args"
  /\ args = DefaultArgs
  /\ bot = "none"
  /\ calls = <<>>
  /\ active = "none"
  /\ coro = NoCoro
  /\ awaited = <<>>
  /\ res = PyNone
  /\ stdout = <<>>
  /\ stdinRead = FALSE
  /\ logLevel = 0
  /\ exc = "none"
  /\ context = "none"
  /\ exitCode = -1

\* an uncaught exception outside the try block: the script ends
Raise(e) ==
  /\ exc' = e
  /\ pc' = "exit"

\* variant: the action runs outside any try/finally
RaiseInTryNoFinally(e) ==
  /\ exc' = e
  /\ pc' = "exit"

\* an exception inside the try block: control goes to the finally clause
RaiseInTry(e) ==
  /\ exc' = e
  /\ pc' = "teardown"

\* line 139: parser.parse_args()
ParseArgs ==
  /\ pc = "parse_args"
  /\ \E cmd \in ACTION_T \cup UnknownCommands \cup { "" } :
       IF cmd \in UnknownCommands
       THEN \* argparse: invalid choice, SystemExit(2)
            /\ pc' = "done"
            /\ exitCode' = 2
            /\ UNCHANGED << args, exc >>
       ELSE /\ \E ov \in OsVersionInputs, ou \in OscUserInputs,
                  bn \in BranchNameInputs, l \in BOOLEAN, f \in BOOLEAN,
                  vb \in 0..MaxVerbose, sub \in SubcommandArgs(cmd) :
                  args' = [ os_version |-> ov, osc_user |-> ou,
                            branch_name |-> bn, load |-> l, from_stdin |-> f,
                            verbose |-> vb,
                            action |-> IF cmd = "" THEN PyNone ELSE PyStr(cmd),
                            commit_message |-> sub.commit_message,
                            no_cleanup_branch |-> sub.no_cleanup_branch,
                            no_cleanup_project |-> sub.no_cleanup_project,
                            timeout_sec |-> sub.timeout_sec ]
            /\ pc' = "check_modes"
            /\ UNCHANGED << exitCode, exc >>
  /\ UNCHANGED << bot, calls, active, coro, awaited, res, stdout, stdinRead, logLevel,
                  context >>

\* variant: the missing-action test comes before the mutual-exclusion test
CheckModesActionFirst ==
  /\ pc = "check_modes"
  /\ IF ~Truthy(args.action)
     THEN Raise("RuntimeError: No action specified")
     ELSE IF args.load /\ args.from_stdin
     THEN Raise("RuntimeError: The --from-stdin and --load flags are mutually exclusive")
     ELSE pc' = "check_action" /\ UNCHANGED exc
  /\ UNCHANGED << args, bot, calls, active, coro, awaited, res, stdout, stdinRead,
                  logLevel, context, exitCode >>

\* variant: the mutual-exclusion test is missing
CheckModesSkipped ==
  /\ pc = "check_modes"
  /\ pc' = "check_action"
  /\ UNCHANGED << args, bot, calls, active, coro, awaited, res, stdout,
                  stdinRead, logLevel, exc, context, exitCode >>

\* lines 141-142
CheckModes ==
  /\ pc = "check_modes"
  /\ IF args.load /\ args.from_stdin
     THEN Raise("RuntimeError: The --from-stdin and --load flags are mutually exclusive")
     ELSE pc' = "check_action" /\ UNCHANGED exc
  /\ UNCHANGED << args, bot, calls, active, coro, awaited, res, stdout, stdinRead,
                  logLevel, context, exitCode >>

\* variant: the missing-action test is absent
CheckActionSkipped ==
  /\ pc = "check_action"
  /\ pc' = "construct"
  /\ UNCHANGED << args, bot, calls, active, coro, awaited, res, stdout,
                  stdinRead, logLevel, exc, context, exitCode >>

\* lines 144-145
CheckAction ==
  /\ pc = "check_action"
  /\ IF ~Truthy(args.action)
     THEN Raise("RuntimeError: No action specified")
     ELSE pc' = "construct" /\ UNCHANGED exc
  /\ UNCHANGED << args, bot, calls, active, coro, awaited, res, stdout, stdinRead,
                  logLevel, context, exitCode >>

\* variant: the load path insists on an OS version as the explicit path does
FromEnvFileNeedsVersion ==
  /\ pc = "construct"
  /\ args.load
  /\ IF ~Truthy(args.os_version)
     THEN /\ Raise("ValueError: No OS version has been set")
          /\ UNCHANGED << bot, calls >>
     ELSE /\ calls' = Append(calls, Concluded("from_env_file", <<>>, "returned"))
          /\ bot' = "from_env_file"
          /\ pc' = "logging"
          /\ UNCHANGED exc
  /\ UNCHANGED << args, active, coro, awaited, res, stdout, stdinRead, logLevel,
                  context, exitCode >>

\* lines 147-148: StagingBot.from_env_file(), run to completion
FromEnvFile ==
  /\ pc = "construct"
  /\ args.load
  /\ \E ok \in BOOLEAN :
       IF ok
       THEN /\ calls' = Append(calls, Concluded("from_env_file", <<>>, "returned"))
            /\ bot' = "from_env_file"
            /\ pc' = "logging"
            /\ UNCHANGED exc
       ELSE /\ calls' = Append(calls, Concluded("from_env_file", <<>>, "raised"))
            /\ Raise("FactoryError")
            /\ UNCHANGED bot
  /\ UNCHANGED << args, active, coro, awaited, res, stdout, stdinRead, logLevel,
                  context, exitCode >>

\* lines 149-151: sys.stdin.read(), StagingBot.from_github_comment()
FromGithubComment ==
  /\ pc = "construct"
  /\ ~args.load
  /\ args.from_stdin
  /\ stdinRead' = TRUE
  /\ \E comment \in StdinInputs, ok \in BOOLEAN :
       LET a == << comment, args.osc_user >> IN
       IF ok
       THEN /\ calls' = Append(calls, Concluded("from_github_comment", a, "returned"))
            /\ bot' = "from_github_comment"
            /\ pc' = "logging"
            /\ UNCHANGED exc
       ELSE /\ calls' = Append(calls, Concluded("from_github_comment", a, "raised"))
            /\ Raise("FactoryError")
            /\ UNCHANGED bot
  /\ UNCHANGED << args, active, coro, awaited, res, stdout, logLevel, context,
                  exitCode >>

\* variant: the OS version is handed to the constructor unvalidated
FromParametersUnchecked ==
  /\ pc = "construct"
  /\ ~args.load
  /\ ~args.from_stdin
  /\ calls' = Append(calls,
          Concluded("StagingBot", << args.os_version.v,
                      args.branch_name, args.osc_user >>, "returned"))
  /\ bot' = "StagingBot"
  /\ pc' = "logging"
  /\ UNCHANGED << args, active, coro, awaited, res, stdout, stdinRead, logLevel,
                  exc, context, exitCode >>

\* lines 152-161: the explicit-parameters path
FromParameters ==
  /\ pc = "construct"
  /\ ~args.load
  /\ ~args.from_stdin
  /\ IF ~Truthy(args.os_version)
     THEN /\ Raise("ValueError: No OS version has been set")
          /\ UNCHANGED << bot, calls >>
     ELSE IF args.os_version.v \notin ALL_OS_VERSIONS
     THEN \* OsVersion.parse raises
          /\ Raise("OsVersionParseError")
          /\ UNCHANGED << bot, calls >>
     ELSE /\ calls' = Append(calls,
                 Concluded("StagingBot", << args.os_version.v,
                             args.branch_name, args.osc_user >>, "returned"))
          /\ bot' = "StagingBot"
          /\ pc' = "logging"
          /\ UNCHANGED exc
  /\ UNCHANGED << args, active, coro, awaited, res, stdout, stdinRead, logLevel,
                  context, exitCode >>

Min(a, b) == IF a < b THEN a ELSE b

\* lines 163-170
ConfigureLogging ==
  /\ pc = "logging"
  /\ logLevel' = IF args.verbose > 0
                 THEN (3 - Min(args.verbose, 2)) * 10
                 ELSE 40
  /\ pc' = "setup"
  /\ UNCHANGED << args, bot, calls, active, coro, awaited, res, stdout, stdinRead,
                  exc, context, exitCode >>

\* variant: the setup coroutine is started and not run to completion
SetupCallNotAwaited ==
  /\ pc = "setup"
  /\ calls' = Append(calls, Call("setup", <<>>))
  /\ active' = "setup"
  /\ pc' = "dispatch"
  /\ UNCHANGED << args, bot, coro, awaited, res, stdout, stdinRead, logLevel,
                  exc, context, exitCode >>

\* line 172: bot.setup() starts
SetupCall ==
  /\ pc = "setup"
  /\ calls' = Append(calls, Call("setup", <<>>))
  /\ active' = "setup"
  /\ pc' = "setup_wait"
  /\ UNCHANGED << args, bot, coro, awaited, res, stdout, stdinRead, logLevel, exc,
                  context, exitCode >>

\* variant: setup() is called inside the try block
SetupDoneInTry ==
  /\ pc = "setup_wait"
  /\ active' = "none"
  /\ \E ok \in BOOLEAN :
       IF ok
       THEN /\ calls' = Conclude(calls, "returned")
            /\ pc' = "dispatch"
            /\ UNCHANGED exc
       ELSE /\ calls' = Conclude(calls, "raised")
            /\ RaiseInTry("SetupError")
  /\ UNCHANGED << args, bot, coro, awaited, res, stdout, stdinRead, logLevel,
                  context, exitCode >>

\* line 172: bot.setup() concludes; a failure is outside the try block
SetupDone ==
  /\ pc = "setup_wait"
  /\ active' = "none"
  /\ \E ok \in BOOLEAN :
       IF ok
       THEN /\ calls' = Conclude(calls, "returned")
            /\ pc' = "dispatch"
            /\ UNCHANGED exc
       ELSE /\ calls' = Conclude(calls, "raised")
            /\ Raise("SetupError")
  /\ UNCHANGED << args, bot, coro, awaited, res, stdout, stdinRead, logLevel,
                  context, exitCode >>

\* a coroutine: the handle operation it awaits, the arguments it passes
\* and the local async function wrapped around it ("none": the handle's own)
Coro(op, a, wrap) == [ op |-> op, args |-> a, wrap |-> wrap ]

\* lines 178-179
RebuildCoro(a) == Coro("force_rebuild", <<>>, "none")

\* lines 181-182
CreateProjectCoro(a) == Coro("write_pkg_configs", <<>>, "none")

\* lines 184-185
CommitStateCoro(a) ==
  Coro("write_all_build_recipes_to_branch", << a.commit_message >>, "none")

\* lines 187-192
QueryBuildResultCoro(a) == Coro("fetch_build_results", <<>>, "print_build_res")

\* lines 194-200
ScratchBuildCoro(a) == Coro("scratch_build", << a.commit_message >>, "_scratch")

\* variant: both flags are computed from --no-cleanup-branch
CleanupCoroCoupled(a) ==
  Coro("remote_cleanup", << ~a.no_cleanup_branch, ~a.no_cleanup_branch >>,
       "none")

\* lines 202-206
CleanupCoro(a) ==
  Coro("remote_cleanup", << ~a.no_cleanup_branch, ~a.no_cleanup_project >>,
       "none")

\* variant: the wait branch drops the user's timeout
WaitCoroNoTimeout(a) == Coro("wait_for_build_to_finish", <<>>, "_wait")

\* variant: the wait branch awaits the fetch operation
WaitCoroFetch(a) == Coro("fetch_build_results", <<>>, "_wait")

\* lines 208-215
WaitCoro(a) == Coro("wait_for_build_to_finish", << a.timeout_sec >>, "_wait")

\* lines 217-225
QualityCoro(a) == Coro("wait_for_build_to_finish", <<>>, "_quality")

\* lines 175-227: the if/elif chain on args.action
DispatchChain(a) ==
  CASE a.action = PyStr("rebuild") -> RebuildCoro(a)
    [] a.action = PyStr("create_project") -> CreateProjectCoro(a)
    [] a.action = PyStr("commit_state") -> CommitStateCoro(a)
    [] a.action = PyStr("query_build_result") -> QueryBuildResultCoro(a)
    [] a.action = PyStr("scratch_build") -> ScratchBuildCoro(a)
    [] a.action = PyStr("cleanup") -> CleanupCoro(a)
    [] a.action = PyStr("wait") -> WaitCoro(a)
    [] a.action = PyStr("get_build_quality") -> QualityCoro(a)
    [] OTHER -> NoCoro

\* lines 175-229
Dispatch ==
  /\ pc = "dispatch"
  /\ coro' = DispatchChain(args)
  /\ IF DispatchChain(args) = NoCoro
     THEN RaiseInTry("AssertionError: invalid action")
     ELSE pc' = "run" /\ UNCHANGED exc
  /\ UNCHANGED << args, bot, calls, active, awaited, res, stdout, stdinRead,
                  logLevel, context, exitCode >>

\* line 230: the coroutine runs up to its await of the handle operation
RunCoro ==
  /\ pc = "run"
  /\ calls' = Append(calls, Call(coro.op, coro.args))
  /\ active' = coro.op
  /\ pc' = "run_wait"
  /\ UNCHANGED << args, bot, coro, awaited, res, stdout, stdinRead, logLevel, exc,
                  context, exitCode >>

\* variant: _quality never looks at the result set
CoroRaisesNever(wrap, r) == "none"

\* the exception the coroutine raises once the handle returned r, or "none"
CoroRaises(wrap, r) ==
  IF wrap = "_quality" /\ is_build_failed(r)
  THEN "RuntimeError: Build failed!"
  ELSE "none"

\* variant: _wait returns the literal of _quality instead of the rendering
CoroValueWaitLiteral(wrap, r) ==
  CASE wrap = "print_build_res" -> PyStr(render_as_markdown(r))
    [] wrap = "_wait" -> PyStr("Build succeded")
    [] wrap = "_scratch" -> PyOr(r, PyStr("No changes"))
    [] wrap = "_quality" -> PyStr("Build succeded")
    [] OTHER -> r

\* the value the coroutine returns once the handle returned r
CoroValue(wrap, r) ==
  CASE wrap = "print_build_res" -> PyStr(render_as_markdown(r))
    [] wrap = "_wait" -> PyStr(render_as_markdown(r))
    [] wrap = "_scratch" -> PyOr(r, PyStr("No changes"))
    [] wrap = "_quality" -> PyStr("Build succeded")
    [] OTHER -> r

\* line 230: the handle operation concludes and the coroutine finishes
CoroDone ==
  /\ pc = "run_wait"
  /\ active' = "none"
  /\ \/ /\ calls' = Conclude(calls, "raised")
        /\ RaiseInTry("ActionError")
        /\ UNCHANGED << awaited, res >>
     \/ \E r \in HandleReturns(coro.op) :
          /\ calls' = Conclude(calls, "returned")
          /\ awaited' = << r >>
          /\ IF CoroRaises(coro.wrap, r) /= "none"
             THEN /\ RaiseInTry(CoroRaises(coro.wrap, r))
                  /\ UNCHANGED res
             ELSE /\ res' = CoroValue(coro.wrap, r)
                  /\ pc' = "print"
                  /\ UNCHANGED exc
  /\ UNCHANGED << args, bot, coro, stdout, stdinRead, logLevel, context,
                  exitCode >>

\* variant: the result is printed without the test of line 231
PrintResAlways ==
  /\ pc = "print"
  /\ stdout' = Append(stdout, IF res.t = "None" THEN "None" ELSE res.v)
  /\ pc' = "teardown"
  /\ UNCHANGED << args, bot, calls, active, coro, awaited, res, stdinRead, logLevel,
                  exc, context, exitCode >>

\* variant: the result is written twice
PrintResTwice ==
  /\ pc = "print"
  /\ stdout' = IF Truthy(res) THEN stdout \o << res.v, res.v >> ELSE stdout
  /\ pc' = "teardown"
  /\ UNCHANGED << args, bot, calls, active, coro, awaited, res, stdinRead, logLevel,
                  exc, context, exitCode >>

\* lines 231-232
PrintRes ==
  /\ pc = "print"
  /\ stdout' = IF Truthy(res) THEN Append(stdout, res.v) ELSE stdout
  /\ pc' = "teardown"
  /\ UNCHANGED << args, bot, calls, active, coro, awaited, res, stdinRead, logLevel,
                  exc, context, exitCode >>

\* lines 233-234: bot.teardown() starts
TeardownCall ==
  /\ pc = "teardown"
  /\ calls' = Append(calls, Call("teardown", <<>>))
  /\ active' = "teardown"
  /\ pc' = "teardown_wait"
  /\ UNCHANGED << args, bot, coro, awaited, res, stdout, stdinRead, logLevel, exc,
                  context, exitCode >>

\* variant: a failure of teardown() does not replace a pending exception
TeardownDoneKeepsFirst ==
  /\ pc = "teardown_wait"
  /\ active' = "none"
  /\ pc' = "exit"
  /\ \E ok \in BOOLEAN :
       IF ok
       THEN /\ calls' = Conclude(calls, "returned")
            /\ UNCHANGED << exc, context >>
       ELSE /\ calls' = Conclude(calls, "raised")
            /\ exc' = IF exc = "none" THEN "TeardownError" ELSE exc
            /\ UNCHANGED context
  /\ UNCHANGED << args, bot, coro, awaited, res, stdout, stdinRead, logLevel,
                  exitCode >>

\* variant: a teardown() that returns clears the pending exception
TeardownDoneSwallows ==
  /\ pc = "teardown_wait"
  /\ active' = "none"
  /\ pc' = "exit"
  /\ \E ok \in BOOLEAN :
       IF ok
       THEN /\ calls' = Conclude(calls, "returned")
            /\ exc' = "none"
            /\ UNCHANGED context
       ELSE /\ calls' = Conclude(calls, "raised")
            /\ exc' = "TeardownError"
            /\ context' = exc
  /\ UNCHANGED << args, bot, coro, awaited, res, stdout, stdinRead, logLevel,
                  exitCode >>

\* line 234: bot.teardown() concludes; the finally clause re-raises a
\* pending exception, a failure of teardown() replaces it
TeardownDone ==
  /\ pc = "teardown_wait"
  /\ active' = "none"
  /\ pc' = "exit"
  /\ \E ok \in BOOLEAN :
       IF ok
       THEN /\ calls' = Conclude(calls, "returned")
            /\ UNCHANGED << exc, context >>
       ELSE /\ calls' = Conclude(calls, "raised")
            /\ exc' = "TeardownError"
            /\ context' = exc
  /\ UNCHANGED << args, bot, coro, awaited, res, stdout, stdinRead, logLevel,
                  exitCode >>

\* the interpreter ends: status 1 after an uncaught exception, 0 otherwise
Exit ==
  /\ pc = "exit"
  /\ exitCode' = IF exc = "none" THEN 0 ELSE 1
  /\ pc' = "done"
  /\ UNCHANGED << args, bot, calls, active, coro, awaited, res, stdout, stdinRead,
                  logLevel, exc, context >>

Next ==
  \/ ParseArgs
  \/ CheckModes
  \/ CheckAction
  \/ FromEnvFile
  \/ FromGithubComment
  \/ FromParameters
  \/ ConfigureLogging
  \/ SetupCall
  \/ SetupDone
  \/ Dispatch
  \/ RunCoro
  \/ CoroDone
  \/ PrintRes
  \/ TeardownCall
  \/ TeardownDone
  \/ Exit

Spec == Init /\ [][Next]_vars

TypeOK ==
  /\ pc \in { "parse_args", "check_modes", "check_action", "construct",
              "logging", "setup", "setup_wait", "dispatch", "run",
              "run_wait", "print", "teardown", "teardown_wait", "exit",
              "done" }
  /\ bot \in { "none", "from_env_file", "from_github_comment", "StagingBot" }
  /\ exitCode \in { -1, 0, 1, 2 }
  /\ logLevel \in { 0, 10, 20, 40 }
\* ------------------------------------------------------------ claims
ActionOps ==
  { "force_rebuild", "write_pkg_configs", "fetch_build_results",
    "write_all_build_recipes_to_branch", "scratch_build", "remote_cleanup",
    "wait_for_build_to_finish" }

FactoryOps == { "from_env_file", "from_github_comment", "StagingBot" }

Indices(ops) == { i \in DOMAIN calls : calls[i].op \in ops }
Count(op) == Cardinality(Indices({ op }))

SetupSucceeded ==
  \E i \in DOMAIN calls : calls[i].op = "setup" /\ calls[i].outcome = "returned"
SetupFailed ==
  \E i \in DOMAIN calls : calls[i].op = "setup" /\ calls[i].outcome = "raised"

\* the dispatched operation failed: the handle operation raised, or
\* _quality raised on a failed build
ActionFailed ==
  \/ \E i \in Indices(ActionOps) : calls[i].outcome = "raised"
  \/ coro.wrap = "_quality" /\ awaited /= <<>> /\ is_build_failed(awaited[1])

Terminated == pc = "done"

\* C1: in every run in which setup() completed successfully teardown() is
\* invoked exactly once (never twice while the run lasts, once when it has
\* ended), whichever action was selected and whether it returned or raised.
C1_TeardownExactlyOnce ==
  SetupSucceeded =>
    /\ Count("teardown") <= 1
    /\ Terminated => Count("teardown") = 1

\* a run whose get_build_quality raised on a failed build has ended after
\* one teardown()
C1_Witness ==
  /\ Terminated
  /\ SetupSucceeded
  /\ args.action = PyStr("get_build_quality")
  /\ exc = "RuntimeError: Build failed!"
  /\ Count("teardown") = 1

\* every call but the last one of the log has concluded: no two handle
\* operations are ever in progress together
NoOverlap == \A i \in DOMAIN calls : i < Len(calls) => calls[i].outcome /= "pending"

\* C2: the lifecycle is strictly ordered.  setup() is never invoked twice;
\* when the action's handle operation or teardown() has begun, setup() has
\* been invoked exactly once and has returned before it; every ended run
\* that constructed a handle invoked setup() once; handle operations never
\* overlap, so the action's operation has concluded before teardown()
\* begins; teardown() is the last call of the run, and once it has begun
\* nothing is printed.
C2_Ordering ==
  /\ [](/\ Count("setup") <= 1
        /\ (Terminated /\ bot /= "none") => Count("setup") = 1
        /\ NoOverlap
        /\ \A i \in Indices(ActionOps \cup { "teardown" }) :
             /\ Count("setup") = 1
             /\ \E j \in 1..(i - 1) :
                  calls[j].op = "setup" /\ calls[j].outcome = "returned"
        /\ \A i \in Indices({ "teardown" }) : i = Len(calls))
  /\ [][Count("teardown") > 0 => stdout' = stdout]_vars

\* a run that printed its result, then tore down, and has ended
C2_Witness ==
  /\ Terminated
  /\ stdout /= <<>>
  /\ Len(calls) = 4
  /\ calls[2].op = "setup"
  /\ calls[3].op \in ActionOps
  /\ calls[4].op = "teardown"

\* C3: when setup() raised, neither teardown() nor any action operation is
\* ever invoked; in an ended run teardown() ran exactly once if and only if
\* setup() returned, and it never runs twice.
C3_SetupFailure ==
  /\ SetupFailed => Count("teardown") = 0 /\ Indices(ActionOps) = {}
  /\ Count("teardown") <= 1
  /\ Terminated => (Count("teardown") = 1 <=> SetupSucceeded)

\* a run ended by a failing setup()
C3_Witness ==
  /\ Terminated
  /\ SetupFailed
  /\ exc = "SetupError"
  /\ calls[Len(calls)].op = "setup"

Parsed == pc /= "parse_args" /\ exitCode /= 2

\* C4: with both load and from-stdin set, whatever the other inputs, no
\* factory and no handle operation is ever invoked, standard input is not
\* read, and the run ends in the mode-conflict failure.
C4_ModeConflict ==
  (Parsed /\ args.load /\ args.from_stdin) =>
    /\ calls = <<>>
    /\ bot = "none"
    /\ ~stdinRead
    /\ pc \in { "check_modes", "exit", "done" }
    /\ Terminated =>
         /\ exitCode = 1
         /\ exc = "RuntimeError: The --from-stdin and --load flags are mutually exclusive"

\* a conflicting run that named an action and an OS version has ended
C4_Witness ==
  /\ Terminated
  /\ args.load
  /\ args.from_stdin
  /\ args.action = PyStr("cleanup")
  /\ args.os_version = PyStr("Tumbleweed")
  /\ exitCode = 1

\* the table of section 4.2: action -> handle operation
TableOperation(action) ==
  CASE action = "rebuild" -> "force_rebuild"
    [] action = "create_project" -> "write_pkg_configs"
    [] action = "query_build_result" -> "fetch_build_results"
    [] action = "commit_state" -> "write_all_build_recipes_to_branch"
    [] action = "scratch_build" -> "scratch_build"
    [] action = "cleanup" -> "remote_cleanup"
    [] action = "wait" -> "wait_for_build_to_finish"
    [] action = "get_build_quality" -> "wait_for_build_to_finish"

\* the run went through dispatch
Dispatched ==
  \/ pc \in { "run", "run_wait", "print", "teardown", "teardown_wait" }
  \/ pc \in { "exit", "done" } /\ SetupSucceeded

\* C5: a run that reaches dispatch invokes one action operation, once, and
\* it is the one the table gives for the selected action; before dispatch
\* none is invoked.
C5_OneTableOperation ==
  /\ Cardinality(Indices(ActionOps)) <= 1
  /\ ~Dispatched => Indices(ActionOps) = {}
  /\ (Dispatched /\ pc /= "run") =>
       /\ args.action.v \in ACTION_T
       /\ \E i \in DOMAIN calls :
            /\ Indices(ActionOps) = { i }
            /\ calls[i].op = TableOperation(args.action.v)

\* an ended wait run whose only action operation was the wait operation
C5_Witness ==
  /\ Terminated
  /\ args.action = PyStr("wait")
  /\ Cardinality(Indices(ActionOps)) = 1
  /\ \E i \in DOMAIN calls : calls[i].op = "wait_for_build_to_finish"

\* the print statement of lines 231-232 is behind
AfterPrint == pc \in { "teardown", "teardown_wait", "exit", "done" }

\* C6: get_build_quality, once the wait returned a result set: if
\* is_build_failed holds of it the run is failing from then on, ends with a
\* non-zero status and prints nothing; otherwise standard output is exactly
\* "Build succeded".
C6_BuildQuality ==
  (Parsed /\ args.action = PyStr("get_build_quality") /\ awaited /= <<>>) =>
    IF is_build_failed(awaited[1])
    THEN /\ \A i \in DOMAIN stdout : stdout[i] /= "Build succeded"
         /\ stdout = <<>>
         /\ exc /= "none"
         /\ Terminated => exitCode /= 0
    ELSE /\ AfterPrint => stdout = << "Build succeded" >>
         /\ ~AfterPrint => stdout = <<>>

\* a quality run over two succeeded packages has ended with status 0
C6_Witness ==
  /\ Terminated
  /\ args.action = PyStr("get_build_quality")
  /\ awaited = << << "succeeded", "succeeded" >> >>
  /\ stdout = << "Build succeded" >>
  /\ exitCode = 0

\* C7: once the dispatched operation failed the run carries an exception to
\* its end: teardown() has been invoked when the script leaves the try
\* statement, and the exit status is non-zero even if teardown() returned.
C7_FailureNotSwallowed ==
  ActionFailed =>
    /\ exc /= "none"
    /\ pc \in { "exit", "done" } => Count("teardown") = 1
    /\ Terminated => exitCode /= 0

\* the handle operation raised, teardown() returned, the run ended failed
C7_Witness ==
  /\ Terminated
  /\ \E i \in Indices(ActionOps) : calls[i].outcome = "raised"
  /\ calls[Len(calls)] = Concluded("teardown", <<>>, "returned")
  /\ exc = "ActionError"
  /\ exitCode = 1

\* C8: scratch_build, once the operation returned r: when r is no
\* identifier (None or empty) the output is exactly "No changes"; when r is
\* an identifier the output is exactly r.
C8_ScratchBuild ==
  (Parsed /\ args.action = PyStr("scratch_build") /\ awaited /= <<>>) =>
    LET r == awaited[1] IN
      /\ ~AfterPrint => stdout = <<>>
      /\ (AfterPrint /\ (r.t = "None" \/ r.v = "")) => stdout = << "No changes" >>
      /\ (AfterPrint /\ r.t = "str" /\ r.v /= "") => stdout = << r.v >>

\* a scratch build that returned the identifier abc123 printed it
C8_Witness ==
  /\ Terminated
  /\ args.action = PyStr("scratch_build")
  /\ awaited = << PyStr("abc123") >>
  /\ stdout = << "abc123" >>

\* C9: every invocation of the cleanup operation passes
\* branches = not no-cleanup-branch and obsProject = not no-cleanup-project,
\* in each of the four combinations, and a cleanup run past line 230 has
\* made that invocation.
C9_CleanupFlags ==
  /\ \A i \in Indices({ "remote_cleanup" }) :
       LET branches == calls[i].args[1]
           obsProject == calls[i].args[2]
       IN /\ Len(calls[i].args) = 2
          /\ (~args.no_cleanup_branch /\ ~args.no_cleanup_project)
               => (branches /\ obsProject)
          /\ (args.no_cleanup_branch /\ ~args.no_cleanup_project)
               => (~branches /\ obsProject)
          /\ (~args.no_cleanup_branch /\ args.no_cleanup_project)
               => (branches /\ ~obsProject)
          /\ (args.no_cleanup_branch /\ args.no_cleanup_project)
               => (~branches /\ ~obsProject)
  /\ (args.action = PyStr("cleanup") /\ AfterPrint /\ SetupSucceeded)
       => Indices({ "remote_cleanup" }) /= {}

\* cleanup --no-cleanup-branch invoked the operation with (false, true)
C9_Witness ==
  /\ args.action = PyStr("cleanup")
  /\ args.no_cleanup_branch
  /\ ~args.no_cleanup_project
  /\ \E i \in DOMAIN calls :
       /\ calls[i].op = "remote_cleanup"
       /\ calls[i].args = << FALSE, TRUE >>

\* C10: query_build_result and wait, once the operation returned a result
\* set: the output is the markdown rendering of that result set and nothing
\* else (nothing at all when the rendering is empty).
C10_RenderedVerbatim ==
  (Parsed /\ args.action \in { PyStr("query_build_result"), PyStr("wait") }
          /\ awaited /= <<>>) =>
    LET md == render_as_markdown(awaited[1]) IN
      /\ ~AfterPrint => stdout = <<>>
      /\ (AfterPrint /\ md /= "") => stdout = << md >>
      /\ (AfterPrint /\ md = "") => stdout = <<>>

\* a wait run printed the rendering of the two packages it was handed
C10_Witness ==
  /\ Terminated
  /\ args.action = PyStr("wait")
  /\ awaited = << << "succeeded", "failed" >> >>
  /\ stdout = << "- succeeded\n- failed\n" >>

\* the actions whose result the table of section 4.2 gives as none
NoResultActions ==
  { PyStr("rebuild"), PyStr("create_project"), PyStr("commit_state"),
    PyStr("cleanup") }

\* C11 as stated: a run of rebuild, create_project, commit_state or cleanup
\* writes nothing to standard output, whatever the handle operation returns
C11_Original ==
  (Parsed /\ args.action \in NoResultActions) => stdout = <<>>

\* C11 (as amended): a run of rebuild, create_project, commit_state or
\* cleanup writes nothing when the handle operation raises or returns
\* nothing (None or an empty value); a non-empty value it returns is printed,
\* exactly that value and once.
C11_NoResultActions ==
  (Parsed /\ args.action \in NoResultActions) =>
    /\ ~AfterPrint => stdout = <<>>
    /\ awaited = <<>> => stdout = <<>>
    /\ (AfterPrint /\ awaited /= <<>>) =>
         LET r == awaited[1] IN
           /\ (r.t = "None" \/ r.v = "") => stdout = <<>>
           /\ (r.t = "str" /\ r.v /= "") => stdout = << r.v >>

\* a rebuild whose operation returned None has ended without output
C11_Witness ==
  /\ Terminated
  /\ args.action = PyStr("rebuild")
  /\ awaited = << PyNone >>
  /\ stdout = <<>>
  /\ exitCode = 0

\* the explicit-parameters mode with an OS version that is absent, empty or
\* not a known version
BadOsVersionRun ==
  /\ Parsed
  /\ ~args.load
  /\ ~args.from_stdin
  /\ (args.os_version.t = "None" \/ args.os_version.v \notin ALL_OS_VERSIONS)

\* C12: in the explicit-parameters mode an absent, empty or unparsable OS
\* version ends the run before any factory, setup(), action operation or
\* teardown() is invoked, and the run ends in failure.
C12_BadOsVersion ==
  BadOsVersionRun =>
    /\ calls = <<>>
    /\ bot = "none"
    /\ pc \in { "check_modes", "check_action", "construct", "exit", "done" }
    /\ Terminated => (exitCode = 1 /\ exc /= "none")

\* a wait run given an unknown OS version ended at OsVersion.parse
C12_Witness ==
  /\ Terminated
  /\ BadOsVersionRun
  /\ args.os_version = PyStr("bogus")
  /\ args.action = PyStr("wait")
  /\ exc = "OsVersionParseError"
  /\ calls = <<>>

\* the factory the mode flags select
SelectedFactory ==
  IF args.load THEN "from_env_file"
  ELSE IF args.from_stdin THEN "from_github_comment"
  ELSE "StagingBot"

\* C13: once setup() is reached exactly one factory has been invoked, once,
\* before anything else; it is the one the mode flags select, the free-text
\* factory received the supplied username, and the explicit one the three
\* parameters; in load and from-stdin modes the run never fails on the OS
\* version, whatever os-version and branch-name are.
C13_OneFactory ==
  /\ Cardinality(Indices(FactoryOps)) <= 1
  /\ Count("setup") > 0 =>
       /\ Indices(FactoryOps) = { 1 }
       /\ calls[1].op = SelectedFactory
       /\ calls[1].outcome = "returned"
       /\ bot = SelectedFactory
       /\ calls[1].op = "from_env_file" => calls[1].args = <<>>
       /\ calls[1].op = "from_github_comment" =>
            (Len(calls[1].args) = 2 /\ calls[1].args[2] = args.osc_user)
       /\ calls[1].op = "StagingBot" =>
            calls[1].args = << args.os_version.v, args.branch_name,
                               args.osc_user >>
  /\ (Parsed /\ (args.load \/ args.from_stdin)) =>
       exc \notin { "ValueError: No OS version has been set",
                    "OsVersionParseError" }

\* a load run without OS version and branch name went through setup()
C13_Witness ==
  /\ Terminated
  /\ args.load
  /\ args.os_version = PyNone
  /\ args.branch_name = PyStr("")
  /\ Count("setup") = 1
  /\ calls[1].op = "from_env_file"
  /\ exitCode = 0

\* C14: standard output is written at most once; what is written is the
\* non-empty result of a dispatched operation that completed normally; it
\* is written before teardown() begins; a run whose action failed prints
\* nothing; a run whose action succeeded with a non-empty result and whose
\* teardown() failed has printed the result and ends in failure.
C14_OutputOnce ==
  /\ [](/\ Len(stdout) <= 1
        /\ stdout /= <<>> =>
             /\ awaited /= <<>>
             /\ ~ActionFailed
             /\ Truthy(res)
             /\ stdout = << res.v >>
        /\ ActionFailed => stdout = <<>>
        /\ (Terminated /\ exc = "TeardownError" /\ context = "none"
                       /\ Truthy(res)) =>
             (stdout = << res.v >> /\ exitCode = 1))
  /\ [][stdout' /= stdout =>
         (Count("teardown") = 0 /\ pc' = "teardown" /\ calls' = calls)]_vars

\* the action printed abc123, teardown() then failed, the run ended failed
C14_Witness ==
  /\ Terminated
  /\ stdout = << "abc123" >>
  /\ exc = "TeardownError"
  /\ context = "none"
  /\ exitCode = 1

TeardownFailed ==
  \E i \in DOMAIN calls :
    calls[i].op = "teardown" /\ calls[i].outcome = "raised"

ActionFailures == { "ActionError", "RuntimeError: Build failed!" }

\* C15: when the dispatched operation and teardown() both failed, the
\* exception the run ends with is the failure of teardown(); the action's
\* failure is only the exception it replaced.
C15_TeardownFailureWins ==
  (ActionFailed /\ TeardownFailed) =>
    /\ exc = "TeardownError"
    /\ context \in ActionFailures
    /\ Terminated => exitCode = 1

\* both the action operation and teardown() raised and the run has ended
C15_Witness ==
  /\ Terminated
  /\ \E i \in Indices(ActionOps) : calls[i].outcome = "raised"
  /\ TeardownFailed
  /\ exc = "TeardownError"
  /\ context = "ActionError"

\* C16: every invocation of the wait operation by the wait action passes
\* the user's timeout value as given (None when none was given); every
\* invocation by get_build_quality passes no timeout; the build-quality
\* failure is raised exactly when the result set returned by that
\* invocation is a failed one, and by no other action.
C16_WaitTimeout ==
  /\ \A i \in Indices({ "wait_for_build_to_finish" }) :
       /\ args.action = PyStr("wait") => calls[i].args = << args.timeout_sec >>
       /\ args.action = PyStr("get_build_quality") => calls[i].args = <<>>
       /\ args.action \in { PyStr("wait"), PyStr("get_build_quality") }
  /\ ("RuntimeError: Build failed!" \in { exc, context }) <=>
       /\ args.action = PyStr("get_build_quality")
       /\ awaited /= <<>>
       /\ is_build_failed(awaited[1])

\* wait --timeout-sec 2 invoked the wait operation with the timeout 2
C16_Witness ==
  /\ args.action = PyStr("wait")
  /\ args.timeout_sec = IntTimeout(2)
  /\ \E i \in DOMAIN calls :
       /\ calls[i].op = "wait_for_build_to_finish"
       /\ calls[i].args = << IntTimeout(2) >>
       /\ calls[i].outcome = "returned"

\* C17: from dispatch on the selected action is one of the 8 identifiers;
\* the invalid-action assertion never fails, and the coroutine is set when
\* it is run.
C17_ClosedActionSet ==
  /\ "AssertionError: invalid action" \notin { exc, context }
  /\ pc \in { "dispatch", "run", "run_wait", "print" } =>
       (args.action.t = "str" /\ args.action.v \in ACTION_T)
  /\ pc = "dispatch" => DispatchChain(args) /= NoCoro
  /\ pc \in { "run", "run_wait" } => coro /= NoCoro

\* the dispatch chain has built the coroutine of get_build_quality
C17_Witness ==
  /\ pc = "run"
  /\ args.action = PyStr("get_build_quality")
  /\ coro.wrap = "_quality"

\* C18: a run without action invokes no factory and no handle operation,
\* does not read standard input, and ends in failure: with the
\* mode-conflict error when load and from-stdin are both set, with the
\* missing-action error otherwise.
C18_NoAction ==
  (Parsed /\ args.action = PyNone) =>
    /\ calls = <<>>
    /\ bot = "none"
    /\ ~stdinRead
    /\ pc \in { "check_modes", "check_action", "exit", "done" }
    /\ Terminated =>
         /\ exitCode = 1
         /\ (args.load /\ args.from_stdin) =>
              exc = "RuntimeError: The --from-stdin and --load flags are mutually exclusive"
         /\ ~(args.load /\ args.from_stdin) =>
              exc = "RuntimeError: No action specified"

\* a run with both mode flags and no action ended in the mode-conflict error
C18_Witness ==
  /\ Terminated
  /\ args.action = PyNone
  /\ args.load
  /\ args.from_stdin
  /\ exc = "RuntimeError: The --from-stdin and --load flags are mutually exclusive"
  /\ calls = <<>>
====
